---- MODULE Spec2Model ----
(***************************************************************************)
(* GEES2Downloader (src/src/geeS2downloader/gee.py, common.py): the tiling *)
(* of a band's pixel grid (_create_tiles), the thread pool that fetches    *)
(* one tile per task, the polling loop that counts finished tasks, and the *)
(* assembly of the fetched blocks into the band's matrix (_download_band,  *)
(* download).                                                              *)
(*                                                                         *)
(* Python values: None is the empty sequence <<>>; a slice pair is the     *)
(* record [y_start, y_stop, x_start, x_stop]; a 2-D array is a sequence of *)
(* rows, pixel (y, x) (0-based, as in the code) being M[y + 1][x + 1].     *)
(***************************************************************************)
EXTENDS Integers, Sequences, FiniteSets

VARIABLES
    pc,           \* position of the calling thread
    calls,        \* download calls made so far on this downloader
    arg_img,      \* download's argument img
    arg_band,     \* download's argument band
    log,          \* requests made to the collaborators during the current call
    img,          \* self.img
    band,         \* self.band
    band_info,    \* self.band_info, reduced to its 'dimensions'
    array,        \* self.array
    tiles,        \* self.tiles
    max_workers,  \* self.max_workers
    max_size,     \* _create_tiles: parameter max_size
    step_y,       \* _create_tiles: local step_y
    step_x,       \* _create_tiles: local step_x
    i,            \* _create_tiles: local i
    j,            \* _create_tiles: local j
    tl,           \* _create_tiles: local list tiles
    img_array,    \* _download_band: local img_array
    workers,      \* _download_band: local list workers (the futures)
    done,         \* _download_band: local done
    total_done,   \* _download_band: local total_done
    pbar_n,       \* _download_band: the 'Tiles' progress bar's counter n
    k,            \* _download_band: position of the zip loop of lines 199-200
    written,      \* history: the positions of the tiles line 200 has written
    overtaken,    \* history: a task finished while one submitted before it had not
    url_body,     \* open_url: bytes of the response body not yet read
    mem_file,     \* open_url: bytes written to mem_file
    bar_n,        \* open_url: pbar.n, the byte-level counter
    bar_total     \* open_url: pbar.total, the tile's size

vars == <<pc, calls, arg_img, arg_band, log, img, band, band_info, array, tiles,
          max_workers, max_size, step_y, step_x, i, j, tl, img_array, workers,
          done, total_done, pbar_n, k, written, overtaken,
          url_body, mem_file, bar_n, bar_total>>

self_vars == <<img, band, band_info, array, tiles, max_workers>>
call_vars == <<calls, arg_img, arg_band, log>>
tiler_vars == <<max_size, step_y, step_x, i, j, tl>>
band_vars == <<img_array, workers, done, total_done, pbar_n, k, written, overtaken>>
url_vars == <<url_body, mem_file, bar_n, bar_total>>

----------------------------------------------------------------------------
(* Bounds of the model. *)

\* band dimensions range over 1..MaxDim in each direction
MaxDim == 3
\* budgets handed to _create_tiles directly range over 1..MaxBudget
MaxBudget == 40
\* pool sizes range over 1..MaxWorkers
MaxWorkers == 3
\* download calls made on one downloader
MaxCalls == 2

\* The sweep of _create_tiles appends without end when a step is 0; the model
\* stops it once the list is longer than any list of non-empty tiles of the grid.
MaxTiles == MaxDim * MaxDim + 1
\* response bodies handed to open_url are of 0 to MaxChunks chunks and a byte
MaxChunks == 2

(* Program constants. *)

\* excess_factor=2 of _estimate_band_size
ExcessFactor == 2
\* max_size=33554432 of _create_tiles, scaled down to the grids of the model:
\* with 16 a band of up to 4 pixels is one tile, larger ones are split in 4 or
\* 6 tiles, and a step of 0 needs a band more than 4 times as wide as high (or
\* as high as wide), as it needs a ratio above 2^23 with 33554432
DefaultMaxSize == 16

\* chunk_size=1024 of r.iter_content
ChunkSize == 1024
\* pbar.update(1024)
ChunkProgress == 1024

None == <<>>
\* None where the other values are strings (band names)
NoBand == "None"
Dims == (1..MaxDim) \X (1..MaxDim)

----------------------------------------------------------------------------
(* Tile *)

Tile(y0, y1, x0, x1) == [y_start |-> y0, y_stop |-> y1, x_start |-> x0, x_stop |-> x1]

\* Tile.shape
shape(t) == <<t.y_stop - t.y_start, t.x_stop - t.x_start>>

\* Tile.size, with the factor 2 of the band's estimate
Tile_size_doubled(t) == (shape(t)[1] * shape(t)[2] * 2 * 13) \div 10

\* Tile.size: int(self.shape[0] * self.shape[1] * 1.3)
Tile_size(t) == (shape(t)[1] * shape(t)[2] * 13) \div 10

\* the pixels a tile's slices select
TilePixels(t) == (t.y_start .. t.y_stop - 1) \X (t.x_start .. t.x_stop - 1)

Grid(d) == (0 .. d[1] - 1) \X (0 .. d[2] - 1)

----------------------------------------------------------------------------
(* _estimate_band_size and the arithmetic of _create_tiles *)

\* dimensions[0] * dimensions[1] * 2 * excess_factor
estimate_band_size(d) == d[1] * d[2] * 2 * ExcessFactor

\* rescale_factor = math.sqrt(max_size / size): rescale_factor > 1 iff max_size > size
RescaleAboveOne(ms, size) == ms > size

\* int(rescale_factor * dim), rounded up instead of down
StepOf_up(dim, ms, size) ==
    CHOOSE s \in 0..dim : /\ s * s * size >= dim * dim * ms
                          /\ (s = 0 \/ (s - 1) * (s - 1) * size < dim * dim * ms)

\* int(rescale_factor * dim) for rescale_factor <= 1: the largest s with
\* s <= dim * sqrt(max_size / size), that is s * s * size <= dim * dim * max_size
StepOf(dim, ms, size) ==
    CHOOSE s \in 0..dim : /\ s * s * size <= dim * dim * ms
                          /\ (s + 1) * (s + 1) * size > dim * dim * ms

\* the stop of a slice, the last one of a row or column ending one pixel early
SliceStop_early(a, step, dim) == IF a + step < dim THEN a + step ELSE dim - 1

\* i + step_y if i + step_y < dimension[0] else dimension[0]
SliceStop_unclipped(a, step, dim) == a + step

SliceStop(a, step, dim) == IF a + step < dim THEN a + step ELSE dim

----------------------------------------------------------------------------
(* _create_tiles, lines 129-156, one action per branch and per loop step *)

CreateTiles ==
    /\ pc = "create_tiles"
    /\ LET size == estimate_band_size(band_info)
       IN IF RescaleAboveOne(max_size, size)
          THEN /\ tiles' = <<Tile(0, band_info[1], 0, band_info[2])>>
               /\ pc' = "tiled"
               /\ UNCHANGED <<step_y, step_x, i, j, tl>>
          ELSE /\ step_y' = StepOf(band_info[1], max_size, size)
               /\ step_x' = StepOf(band_info[2], max_size, size)
               /\ i' = 0
               /\ j' = 0
               /\ tl' = <<>>
               /\ pc' = "sweep"
               /\ UNCHANGED tiles
    /\ UNCHANGED url_vars
    /\ UNCHANGED <<call_vars, img, band, band_info, array, max_workers, max_size, band_vars>>

\* one pass of the inner while: append the tile at (i, j), j += step_x
SweepInner ==
    /\ pc = "sweep"
    /\ i < band_info[1]
    /\ j < band_info[2]
    /\ Len(tl) < MaxTiles
    /\ tl' = Append(tl, Tile(i, SliceStop(i, step_y, band_info[1]),
                             j, SliceStop(j, step_x, band_info[2])))
    /\ j' = j + step_x
    /\ UNCHANGED url_vars
    /\ UNCHANGED <<pc, call_vars, self_vars, max_size, step_y, step_x, i, band_vars>>

\* the inner while is over: i += step_y, j = 0
SweepOuter ==
    /\ pc = "sweep"
    /\ i < band_info[1]
    /\ j >= band_info[2]
    /\ i' = i + step_y
    /\ j' = 0
    /\ UNCHANGED url_vars
    /\ UNCHANGED <<pc, call_vars, self_vars, max_size, step_y, step_x, tl, band_vars>>

\* the outer while is over: return tiles
SweepReturn ==
    /\ pc = "sweep"
    /\ i >= band_info[1]
    /\ tiles' = tl
    /\ pc' = "tiled"
    /\ UNCHANGED url_vars
    /\ UNCHANGED <<call_vars, img, band, band_info, array, max_workers, tiler_vars, band_vars>>

----------------------------------------------------------------------------
(* The imagery service and the raster a tile's request returns *)

Images == {"imgA", "imgB"}
\* the bands every image of the model holds, and the names download is called with
ImageBands == {"B4", "B8"}
RequestBands == ImageBands \cup {"B99"}

\* img.bandNames().contains(band).getInfo()
BandExists_always(im, b) == TRUE

BandExists(im, b) == b \in ImageBands

\* the sample the service holds for pixel (y, x) of a band: never 0, so that a
\* pixel of the matrix that is 0 was not written
SourcePixel(b, y, x) == (IF b = "B8" THEN 100 ELSE 0) + 10 * y + x + 1

\* ds.read(out_shape=self.shape) of Tile.download: the block of the tile's region
Block(b, t) ==
    [dy \in 1 .. shape(t)[1] |->
        [dx \in 1 .. shape(t)[2] |-> SourcePixel(b, t.y_start + dy - 1, t.x_start + dx - 1)]]

\* np.zeros(self.band_info['dimensions'])
Zeros(d) == [y \in 1 .. d[1] |-> [x \in 1 .. d[2] |-> 0]]

\* img_array[tile.slices] = block, with the stop of the row slice one short
SetSlices_short(M, t, blk) ==
    [y \in DOMAIN M |->
        [x \in DOMAIN M[y] |->
            IF <<y - 1, x - 1>> \in (t.y_start .. t.y_stop - 2) \X (t.x_start .. t.x_stop - 1)
            THEN blk[y - t.y_start][x - t.x_start]
            ELSE M[y][x]]]

\* img_array[tile.slices] = block
SetSlices(M, t, blk) ==
    [y \in DOMAIN M |->
        [x \in DOMAIN M[y] |->
            IF <<y - 1, x - 1>> \in TilePixels(t)
            THEN blk[y - t.y_start][x - t.x_start]
            ELSE M[y][x]]]

----------------------------------------------------------------------------
(* The futures of the ThreadPoolExecutor *)

\* Future.done(): the call finished, with a result or with an exception
IsDone(w) == w.st \in {"ok", "failed"}

\* _workers_done, lines 158-163: the number of futures that are done.  The loop
\* reads the futures one after the other while tasks go on finishing; the count
\* it returns lies between the counts at its start and at its end, and the
\* count of done futures passes through every value in between, so the loop
\* returns the count of some moment of its run.
workers_done_succeeded(ws) == Cardinality({n \in DOMAIN ws : ws[n].st = "ok"})

workers_done(ws) == Cardinality({n \in DOMAIN ws : IsDone(ws[n])})

Running(ws) == {n \in DOMAIN ws : ws[n].st = "running"}

\* a thread of the pool is free: the executor runs at most max_workers calls
PoolHasFreeThread_always(ws) == TRUE

PoolHasFreeThread(ws) == Cardinality(Running(ws)) < max_workers

\* the call the pool runs next is the oldest one still queued, whatever became
\* of the calls before it
IsQueueHead_unless_failed(ws, n) ==
    /\ ws[n].st = "pending"
    /\ \A m \in 1 .. n - 1 : ws[m].st \in {"running", "ok"}

IsQueueHead(ws, n) ==
    /\ ws[n].st = "pending"
    /\ \A m \in 1 .. n - 1 : ws[m].st # "pending"

\* Future.result() raises the exception of a call that failed
ResultRaises_never(w) == FALSE

ResultRaises(w) == w.st = "failed"

\* the tile the n-th executor.submit of the for loop of lines 181-182 is given
SubmittedTile_first(n) == tiles[1]

SubmittedTile(n) == tiles[n]

\* the pairs zip(self.tiles, workers) yields
ZipLen_short == (IF Len(tiles) < Len(workers) THEN Len(tiles) ELSE Len(workers)) - 1

ZipLen == IF Len(tiles) < Len(workers) THEN Len(tiles) ELSE Len(workers)

----------------------------------------------------------------------------
(* download, lines 204-222 *)

\* the call and the test of line 207, the band recorded before it is tested
Download_record_first(im, b) ==
    /\ pc = "idle"
    /\ calls' = calls + 1
    /\ arg_img' = im
    /\ arg_band' = b
    /\ log' = {"bandNames"}
    /\ band' = b
    /\ pc' = IF BandExists(im, b) THEN "band_found" ELSE "not_found"
    /\ UNCHANGED url_vars
    /\ UNCHANGED <<img, band_info, array, tiles, max_workers, tiler_vars, band_vars>>

\* the call and the test of line 207
Download(im, b) ==
    /\ pc = "idle"
    /\ calls' = calls + 1
    /\ arg_img' = im
    /\ arg_band' = b
    /\ log' = {"bandNames"}
    /\ pc' = IF BandExists(im, b) THEN "band_found" ELSE "not_found"
    /\ UNCHANGED url_vars
    /\ UNCHANGED <<self_vars, tiler_vars, band_vars>>

\* lines 208-214: select the band, fetch its metadata and its nominal scale
FetchBandInfo(d) ==
    /\ pc = "band_found"
    /\ img' = <<arg_img, arg_band>>
    /\ band' = arg_band
    /\ band_info' = d
    /\ log' = log \cup {"system:bands", "nominalScale"}
    /\ pc' = "metadata"
    /\ UNCHANGED url_vars
    /\ UNCHANGED <<calls, arg_img, arg_band, array, tiles, max_workers, tiler_vars, band_vars>>

\* line 216 enters _download_band: lines 167-170, the zero matrix and the call
\* of _create_tiles with its default max_size
DownloadBandStart ==
    /\ pc = "metadata"
    /\ img_array' = Zeros(band_info)
    /\ written' = {}
    /\ max_size' = DefaultMaxSize
    /\ log' = log \cup {"tiles"}
    /\ pc' = "create_tiles"
    /\ UNCHANGED url_vars
    /\ UNCHANGED <<calls, arg_img, arg_band, self_vars, step_y, step_x, i, j, tl,
                   workers, done, total_done, pbar_n, k, overtaken>>

\* lines 171-180: the executor, the session and the empty list of workers
CreateExecutor ==
    /\ pc = "tiled"
    /\ img_array # None
    /\ workers' = <<>>
    /\ pc' = "submit"
    /\ UNCHANGED url_vars
    /\ UNCHANGED <<call_vars, self_vars, tiler_vars,
                   img_array, done, total_done, pbar_n, k, written, overtaken>>

\* lines 181-182: one pass of the for loop, executor.submit(Tile.download, tile, ...)
Submit ==
    /\ pc = "submit"
    /\ Len(workers) < Len(tiles)
    /\ workers' = Append(workers, [tile |-> SubmittedTile(Len(workers) + 1), st |-> "pending"])
    /\ log' = log \cup {"submit"}
    /\ UNCHANGED url_vars
    /\ UNCHANGED <<pc, calls, arg_img, arg_band, self_vars, tiler_vars,
                   img_array, done, total_done, pbar_n, k, written, overtaken>>

\* a thread of the pool takes the oldest queued call and runs Tile.download:
\* getDownloadUrl (line 59), then the streaming GET of open_url
TaskStart(n) ==
    /\ n \in DOMAIN workers
    /\ IsQueueHead(workers, n)
    /\ PoolHasFreeThread(workers)
    /\ workers' = [workers EXCEPT ![n].st = "running"]
    /\ log' = log \cup {"getDownloadUrl", "GET"}
    /\ UNCHANGED url_vars
    /\ UNCHANGED <<pc, calls, arg_img, arg_band, self_vars, tiler_vars,
                   img_array, done, total_done, pbar_n, k, written, overtaken>>

\* Tile.download returns the block
TaskSucceed(n) ==
    /\ n \in DOMAIN workers
    /\ workers[n].st = "running"
    /\ workers' = [workers EXCEPT ![n].st = "ok"]
    /\ overtaken' = (overtaken \/ \E m \in 1 .. n - 1 : workers[m].st = "running")
    /\ UNCHANGED url_vars
    /\ UNCHANGED <<pc, call_vars, self_vars, tiler_vars,
                   img_array, done, total_done, pbar_n, k, written>>

\* Tile.download raises: the retries are exhausted, or the payload does not decode
TaskFail(n) ==
    /\ n \in DOMAIN workers
    /\ workers[n].st = "running"
    /\ workers' = [workers EXCEPT ![n].st = "failed"]
    /\ overtaken' = (overtaken \/ \E m \in 1 .. n - 1 : workers[m].st = "running")
    /\ UNCHANGED url_vars
    /\ UNCHANGED <<pc, call_vars, self_vars, tiler_vars,
                   img_array, done, total_done, pbar_n, k, written>>

\* lines 185-188: total_done = 0, the bar, the first count and the first test
PollFirst ==
    /\ pc = "submit"
    /\ Len(workers) >= Len(tiles)
    /\ total_done' = 0
    /\ pbar_n' = 0
    /\ done' = workers_done(workers)
    /\ pc' = IF done' < Len(workers) THEN "poll" ELSE "assemble"
    /\ k' = 1
    /\ UNCHANGED url_vars
    /\ UNCHANGED <<call_vars, self_vars, tiler_vars, img_array, workers, written, overtaken>>

\* lines 189-194: one pass of the while loop, and its test
Poll ==
    /\ pc = "poll"
    /\ done' = workers_done(workers)
    /\ IF done' > total_done
       THEN /\ pbar_n' = pbar_n + (done' - total_done)
            /\ total_done' = total_done + (done' - total_done)
       ELSE UNCHANGED <<pbar_n, total_done>>
    /\ pc' = IF done' < Len(workers) THEN "poll" ELSE "assemble"
    /\ UNCHANGED url_vars
    /\ UNCHANGED <<call_vars, self_vars, tiler_vars, img_array, workers, k, written, overtaken>>

\* lines 199-200: one pass of the zip loop; worker.result() waits for the call
\* to finish and returns its block or raises its exception, which leaves
\* _download_band and download
Assemble ==
    /\ pc = "assemble"
    /\ k <= ZipLen
    /\ IsDone(workers[k])
    /\ IF ResultRaises(workers[k])
       THEN /\ pc' = "raised"
            /\ UNCHANGED <<img_array, k, written>>
       ELSE /\ IF workers[k].st = "ok"
               THEN /\ img_array' = SetSlices(img_array, tiles[k], Block(band, workers[k].tile))
                    /\ written' = written \cup {k}
               ELSE UNCHANGED <<img_array, written>>
            /\ k' = k + 1
            /\ pc' = "assemble"
    /\ UNCHANGED url_vars
    /\ UNCHANGED <<call_vars, self_vars, tiler_vars, workers, done, total_done, pbar_n, overtaken>>

\* line 202 and lines 216-218: return img_array, self.array = ..., 'Finished'
Finish ==
    /\ pc = "assemble"
    /\ k > ZipLen
    /\ array' = img_array
    /\ pc' = "finished"
    /\ UNCHANGED url_vars
    /\ UNCHANGED <<call_vars, img, band, band_info, tiles, max_workers, tiler_vars, band_vars>>

\* download is over (returned, or left by an exception), its locals are gone,
\* and the caller goes on to its next call
ReturnToCaller ==
    /\ pc \in {"finished", "raised", "not_found"}
    /\ calls < MaxCalls
    /\ pc' = "idle"
    /\ arg_img' = None
    /\ arg_band' = NoBand
    /\ log' = {}
    /\ max_size' = 0
    /\ step_y' = 0
    /\ step_x' = 0
    /\ i' = 0
    /\ j' = 0
    /\ tl' = <<>>
    /\ img_array' = None
    /\ workers' = <<>>
    /\ done' = 0
    /\ total_done' = 0
    /\ pbar_n' = 0
    /\ k' = 0
    /\ written' = {}
    /\ overtaken' = FALSE
    /\ UNCHANGED url_vars
    /\ UNCHANGED <<calls, self_vars>>

\* __init__, lines 93-99
Init ==
    /\ pc = "idle"
    /\ calls = 0
    /\ arg_img = None
    /\ arg_band = NoBand
    /\ log = {}
    /\ img = None
    /\ band = NoBand
    /\ band_info = None
    /\ array = None
    /\ tiles = None
    /\ max_workers \in 1..MaxWorkers
    /\ max_size = 0
    /\ step_y = 0
    /\ step_x = 0
    /\ i = 0
    /\ j = 0
    /\ tl = <<>>
    /\ img_array = None
    /\ workers = <<>>
    /\ done = 0
    /\ total_done = 0
    /\ pbar_n = 0
    /\ k = 0
    /\ written = {}
    /\ overtaken = FALSE
    /\ url_body = 0
    /\ mem_file = 0
    /\ bar_n = 0
    /\ bar_total = 0

Next ==
    \/ \E im \in Images, b \in RequestBands : Download(im, b)
    \/ \E d \in Dims : FetchBandInfo(d)
    \/ DownloadBandStart
    \/ CreateTiles
    \/ SweepInner
    \/ SweepOuter
    \/ SweepReturn
    \/ CreateExecutor
    \/ Submit
    \/ \E n \in 1 .. MaxTiles : TaskStart(n) \/ TaskSucceed(n) \/ TaskFail(n)
    \/ PollFirst
    \/ Poll
    \/ Assemble
    \/ Finish

\* one download call on a new downloader
Spec == Init /\ [][Next]_vars

\* the steps of the threads of the pool, and those of the calling thread
PoolStep == \E n \in 1 .. MaxTiles : TaskStart(n) \/ TaskSucceed(n) \/ TaskFail(n)

CallerStep ==
    \/ \E d \in Dims : FetchBandInfo(d)
    \/ DownloadBandStart
    \/ CreateTiles
    \/ SweepInner
    \/ SweepOuter
    \/ SweepReturn
    \/ CreateExecutor
    \/ Submit
    \/ PollFirst
    \/ Poll
    \/ Assemble
    \/ Finish

\* one download call, with threads that are scheduled fairly and fetches that
\* end (with a block or with an exception): a pool thread that can take or end
\* a call does so, and the calling thread goes on whenever it can
SpecFair == Spec /\ WF_vars(PoolStep) /\ WF_vars(CallerStep)

\* up to MaxCalls download calls, one after the other, on one downloader whose
\* pool has a single thread
InitCalls == Init /\ max_workers = 1

NextCalls == Next \/ ReturnToCaller

SpecCalls == InitCalls /\ [][NextCalls]_vars

----------------------------------------------------------------------------
(* The tiler on its own: _create_tiles(max_size) on a downloader whose     *)
(* band_info holds any dimensions, for any budget.                         *)

InitTiler ==
    /\ pc = "create_tiles"
    /\ calls = 0
    /\ arg_img = None
    /\ arg_band = NoBand
    /\ log = {}
    /\ img = None
    /\ band = NoBand
    /\ band_info \in Dims
    /\ array = None
    /\ tiles = None
    /\ max_workers \in 1..MaxWorkers
    /\ max_size \in 1..MaxBudget
    /\ step_y = 0
    /\ step_x = 0
    /\ i = 0
    /\ j = 0
    /\ tl = <<>>
    /\ img_array = None
    /\ workers = <<>>
    /\ done = 0
    /\ total_done = 0
    /\ pbar_n = 0
    /\ k = 0
    /\ written = {}
    /\ overtaken = FALSE
    /\ url_body = 0
    /\ mem_file = 0
    /\ bar_n = 0
    /\ bar_total = 0

NextTiler == CreateTiles \/ SweepInner \/ SweepOuter \/ SweepReturn

SpecTiler == InitTiler /\ [][NextTiler]_vars

----------------------------------------------------------------------------
(* open_url, common.py lines 14-31, on its own: a response body of any       *)
(* length, and a progress bar whose total is below, at or above it.           *)

BodyLengths == 0 .. MaxChunks * ChunkSize + 1
BarTotals == {c * ChunkSize + e : c \in 0 .. MaxChunks, e \in {-1, 0, 1}} \ {-1, 0}

\* the next chunk r.iter_content(chunk_size) yields: chunk_size bytes, fewer at the end
NextChunk(left) == IF left < ChunkSize THEN left ELSE ChunkSize

\* lines 21-26: one pass of the for loop
ReadChunk ==
    /\ pc = "open_url"
    /\ url_body > 0
    /\ mem_file' = mem_file + NextChunk(url_body)
    /\ url_body' = url_body - NextChunk(url_body)
    /\ bar_n' = bar_n + ChunkProgress
    /\ UNCHANGED <<pc, bar_total, call_vars, self_vars, tiler_vars, band_vars>>

\* lines 28-31: the body is read; top the counter up and return mem_file
StreamEnd ==
    /\ pc = "open_url"
    /\ url_body = 0
    /\ bar_n' = IF bar_n < bar_total THEN bar_n + (bar_total - bar_n) ELSE bar_n
    /\ pc' = "url_done"
    /\ UNCHANGED <<url_body, mem_file, bar_total, call_vars, self_vars, tiler_vars, band_vars>>

\* Tile.download, lines 62-63: a bar at 0 with total=self.size, and the call
InitOpenUrl ==
    /\ pc = "open_url"
    /\ calls = 0
    /\ arg_img = None
    /\ arg_band = NoBand
    /\ log = {}
    /\ img = None
    /\ band = NoBand
    /\ band_info = None
    /\ array = None
    /\ tiles = None
    /\ max_workers = 1
    /\ max_size = 0
    /\ step_y = 0
    /\ step_x = 0
    /\ i = 0
    /\ j = 0
    /\ tl = <<>>
    /\ img_array = None
    /\ workers = <<>>
    /\ done = 0
    /\ total_done = 0
    /\ pbar_n = 0
    /\ k = 0
    /\ written = {}
    /\ overtaken = FALSE
    /\ url_body \in BodyLengths
    /\ mem_file = 0
    /\ bar_n = 0
    /\ bar_total \in BarTotals

NextOpenUrl == ReadChunk \/ StreamEnd

SpecOpenUrl == InitOpenUrl /\ [][NextOpenUrl]_vars

----------------------------------------------------------------------------
(* Claims about the tiler *)

IsPartition(ts, d) ==
    /\ \A n \in DOMAIN ts :
          /\ 0 <= ts[n].y_start /\ ts[n].y_stop <= d[1]
          /\ 0 <= ts[n].x_start /\ ts[n].x_stop <= d[2]
    /\ \A p \in Grid(d) : Cardinality({n \in DOMAIN ts : p \in TilePixels(ts[n])}) = 1

\* C1: whatever the band's dimensions and the budget, the tile list that
\* _create_tiles returns is an exact partition of the grid: every pixel lies in
\* exactly one tile and no tile reaches past the grid.
C1_TilesPartitionGrid == pc = "tiled" => IsPartition(tiles, band_info)

\* C1 witness: a returned list of several tiles whose last row and column are clipped
C1_Witness ==
    /\ pc = "tiled"
    /\ Len(tiles) >= 4
    /\ \E n \in DOMAIN tiles : shape(tiles[n]) # shape(tiles[1])

\* C2: the steps of the sweep are at least 1, so the indices advance on every
\* iteration and the list stays within the number of pixels of the grid.
C2_SweepStepsPositive ==
    pc = "sweep" => /\ step_y >= 1
                    /\ step_x >= 1
                    /\ Len(tl) <= band_info[1] * band_info[2]

----------------------------------------------------------------------------
(* Claims about one download call *)

Failed == {n \in DOMAIN workers : workers[n].st = "failed"}
Succeeded == {n \in DOMAIN workers : workers[n].st = "ok"}
AllSubmitted == pc \in {"poll", "assemble", "finished", "raised"}
DownloadOver == pc \in {"finished", "raised"}

\* the matrix M holds value v(y, x) at every pixel (y, x) of tile t
RegionHolds(M, t, v(_, _)) ==
    \A p \in TilePixels(t) : M[p[1] + 1][p[2] + 1] = v(p[1], p[2])

ZeroAt(y, x) == 0
SourceAt(y, x) == SourcePixel(band, y, x)

\* C3: when exactly one fetch task failed and all the others succeeded, then
\* after download the output matrix is zero over the failed tile's region and
\* holds, for every other tile, before or after the failed one in the list, the
\* block fetched for it.
C3_OneFailureLeavesOthersPopulated ==
    (DownloadOver /\ Cardinality(Failed) = 1 /\ Failed \cup Succeeded = DOMAIN workers)
    => \A n \in DOMAIN workers :
          IF n \in Failed
          THEN RegionHolds(img_array, tiles[n], ZeroAt)
          ELSE RegionHolds(img_array, tiles[n], SourceAt)

\* C4: a download one of whose fetch tasks failed never ends in the success
\* outcome: the zip loop does not get past a failed task, and 'Finished' is
\* reached only with every task succeeded.
C4_FailureNeverEndsInSuccess ==
    /\ pc = "finished" => Failed = {}
    /\ pc = "assemble" => \A n \in 1 .. k - 1 : n \notin Failed

\* C4 witness: download left by the exception of a failed task, other tasks having succeeded
C4_Witness ==
    /\ pc = "raised"
    /\ Cardinality(Failed) >= 1
    /\ Cardinality(Succeeded) >= 2

\* C5: a download called with a band the image does not hold ends in the
\* band-not-found failure, having fetched no band metadata, computed no tiles,
\* submitted no fetch task and asked for no tile URL or payload.
C5_MissingBandFailsWithoutRequests ==
    (arg_band # NoBand /\ arg_band \notin ImageBands)
    => /\ pc = "not_found"
       /\ log \cap {"system:bands", "nominalScale", "tiles", "submit", "getDownloadUrl", "GET"} = {}
       /\ tl = <<>>
       /\ img_array = None
       /\ workers = <<>>

\* C5 witness: the call with the missing band has ended
C5_Witness == pc = "not_found" /\ arg_band = "B99" /\ log = {"bandNames"}

\* C6: once every fetch task is done and the polling loop is left, the
\* tile-level progress counter equals the number of tiles.
C6_ProgressCounterEqualsTiles ==
    pc \in {"assemble", "finished", "raised"} => pbar_n = Len(tiles)

\* C7: a tile is written only when its fetch task has completed, and completion
\* is reported only with every tile written and no task pending or running.
C7_WriteAfterFetchBeforeCompletion ==
    /\ \A n \in written : n \in DOMAIN workers /\ workers[n].st = "ok"
    /\ pc = "finished" => /\ written = DOMAIN tiles
                          /\ \A n \in DOMAIN workers : workers[n].st \in {"ok", "failed"}

\* C7 witness: completion reported for a band of four tiles fetched by several threads
C7_Witness ==
    /\ pc = "finished"
    /\ Len(tiles) >= 4
    /\ written = 1 .. 4
    /\ max_workers >= 2
    /\ overtaken

\* C8: when every fetch task succeeded, the assembled matrix is the band's
\* raster, whatever the order of completion and the pool size: every pixel
\* holds the sample fetched for it, and none is left at 0.
C8_AssembledMatrixIsTheBand ==
    pc = "finished"
    => /\ Len(array) = band_info[1]
       /\ \A y \in 1 .. band_info[1] :
             /\ Len(array[y]) = band_info[2]
             /\ \A x \in 1 .. band_info[2] :
                   array[y][x] = SourcePixel(band, y - 1, x - 1) /\ array[y][x] # 0

\* C8 witness: a matrix assembled from four tiles whose tasks did not finish in
\* the order of their submission
C8_Witness ==
    /\ pc = "finished"
    /\ Len(tiles) = 4
    /\ overtaken
    /\ band = "B8"
    /\ array[band_info[1]][band_info[2]] = SourcePixel("B8", band_info[1] - 1, band_info[2] - 1)

\* C9: one fetch task is submitted per tile, and every tile is handed to
\* exactly one task.
C9_OneTaskPerTile ==
    /\ pc = "submit" =>
          /\ Len(workers) <= Len(tiles)
          /\ \A n \in DOMAIN tiles :
                Cardinality({m \in DOMAIN workers : workers[m].tile = tiles[n]}) <= 1
    /\ AllSubmitted =>
          /\ Len(workers) = Len(tiles)
          /\ \A n \in DOMAIN tiles :
                Cardinality({m \in DOMAIN workers : workers[m].tile = tiles[n]}) = 1

\* C9 witness: four tiles, all submitted
C9_Witness == pc = "poll" /\ Len(tiles) = 4 /\ Len(workers) = 4

\* C10: at no moment do more than max_workers fetch tasks run.
C10_RunningAtMostMaxWorkers == Cardinality(Running(workers)) <= max_workers

\* C10 witness: the pool is full while submitted tasks wait
C10_Witness ==
    /\ Cardinality(Running(workers)) = max_workers
    /\ \E n \in DOMAIN workers : workers[n].st = "pending"

\* C12: every tile of a list _create_tiles returns has an estimated payload,
\* height * width * 2 * excess_factor, of at most the budget max_size.
C12_TilePayloadWithinBudget ==
    pc = "tiled" => \A n \in DOMAIN tiles : estimate_band_size(shape(tiles[n])) <= max_size

\* C12 witness: a list of several tiles whose payload is exactly the budget
C12_Witness ==
    /\ pc = "tiled"
    /\ Len(tiles) >= 4
    /\ estimate_band_size(shape(tiles[1])) = max_size

\* the step the tiler is to take along a dimension: floor(rescale_factor * dim)
IsFloorStep(s, dim) ==
    /\ s * s * estimate_band_size(band_info) <= dim * dim * max_size
    /\ (s + 1) * (s + 1) * estimate_band_size(band_info) > dim * dim * max_size

\* C14: with rescale_factor > 1 (max_size above the band's estimate) the list
\* returned is the one tile [0, height) x [0, width); otherwise the tiles come
\* in row-major order, each step_y x step_x with the steps the floors of
\* rescale_factor * height and rescale_factor * width, except that the tiles
\* of the last row and of the last column stop at the grid's edge, non-empty.
C14_SingleTileOrRowMajorSweep ==
    pc = "tiled" =>
       IF max_size > estimate_band_size(band_info)
       THEN tiles = <<Tile(0, band_info[1], 0, band_info[2])>>
       ELSE /\ IsFloorStep(step_y, band_info[1])
            /\ IsFloorStep(step_x, band_info[2])
            /\ \A n \in DOMAIN tiles :
                  LET t == tiles[n]
                  IN /\ shape(t)[1] >= 1 /\ shape(t)[2] >= 1
                     /\ IF t.y_stop < band_info[1]
                        THEN shape(t)[1] = step_y
                        ELSE t.y_stop = band_info[1] /\ shape(t)[1] <= step_y
                     /\ IF t.x_stop < band_info[2]
                        THEN shape(t)[2] = step_x
                        ELSE t.x_stop = band_info[2] /\ shape(t)[2] <= step_x
            /\ \A n \in 1 .. Len(tiles) - 1 :
                  \/ tiles[n].y_start < tiles[n + 1].y_start
                  \/ /\ tiles[n].y_start = tiles[n + 1].y_start
                     /\ tiles[n].x_start < tiles[n + 1].x_start

\* C14 witness: a sweep whose last row and last column are clipped
C14_Witness ==
    /\ pc = "tiled"
    /\ max_size <= estimate_band_size(band_info)
    /\ Len(tiles) = 4
    /\ shape(tiles[1]) = <<step_y, step_x>>
    /\ shape(tiles[4])[1] < step_y
    /\ shape(tiles[4])[2] < step_x

\* C16 as stated: shape is (y_stop - y_start, x_stop - x_start), and there is
\* one overhead factor f with size = height * width * 2 * f for every tile (the
\* sizes of any two tiles of a list are in the ratio of their pixel counts).
C16_SizeIsTwiceAreaTimesFactor ==
    pc = "tiled" =>
       \A n, m \in DOMAIN tiles :
          /\ shape(tiles[n]) = <<tiles[n].y_stop - tiles[n].y_start,
                                 tiles[n].x_stop - tiles[n].x_start>>
          /\ Tile_size(tiles[n]) * (shape(tiles[m])[1] * shape(tiles[m])[2] * 2)
             = Tile_size(tiles[m]) * (shape(tiles[n])[1] * shape(tiles[n])[2] * 2)

\* C16 as amended: shape is (y_stop - y_start, x_stop - x_start), and size is
\* the integer part of height * width * 1.3, with no factor 2.
C16_SizeIsTruncatedArea13 ==
    pc = "tiled" =>
       \A n \in DOMAIN tiles :
          LET h == tiles[n].y_stop - tiles[n].y_start
              w == tiles[n].x_stop - tiles[n].x_start
          IN /\ shape(tiles[n]) = <<h, w>>
             /\ 10 * Tile_size(tiles[n]) <= 13 * h * w
             /\ 10 * (Tile_size(tiles[n]) + 1) > 13 * h * w

\* C16 witness: a list with tiles of 4, 2 and 1 pixels, of sizes 5, 2 and 1
C16_Witness ==
    /\ pc = "tiled"
    /\ Len(tiles) = 4
    /\ Tile_size(tiles[1]) = 5
    /\ Tile_size(tiles[2]) = 2
    /\ Tile_size(tiles[4]) = 1

\* C11: once a fetch task has failed, every task of the call is still
\* submitted, started and brought to its own end (a block or an exception):
\* the failure neither cancels the queued tasks nor keeps them from starting.
C11_FailureLeavesSiblingsRunning ==
    (Failed # {}) ~> (Len(workers) = Len(tiles) /\ \A n \in DOMAIN workers : IsDone(workers[n]))

\* C11 witness: with one thread, a task taken from the queue after an earlier
\* task had failed has run to its end
C11_Witness ==
    /\ max_workers = 1
    /\ Len(workers) = 4
    /\ workers[1].st = "failed"
    /\ workers[2].st = "ok"
    /\ workers[3].st = "running"

\* C17: once the tasks are being submitted, with fetches that end and threads
\* scheduled fairly, the polling loop is left and download reaches its end:
\* 'Finished', or the exception of a failed task.
C17_PollingLoopExits ==
    (pc \in {"submit", "poll"}) ~> (pc \in {"finished", "raised"})

\* C17 witness: the loop polled until four tasks, one of them failed, were done
C17_Witness ==
    /\ pc = "raised"
    /\ Len(workers) = 4
    /\ total_done = 4
    /\ Failed # {}

----------------------------------------------------------------------------
(* Claims about sequences of download calls *)

\* the phase of the orchestrator at each position of the calling thread
Phase ==
    CASE pc \in {"idle", "band_found"} -> "Idle"
      [] pc \in {"metadata", "create_tiles", "sweep"} -> "MetadataFetched"
      [] pc = "tiled" -> "Tiled"
      [] pc \in {"submit", "poll", "assemble"} -> "Downloading"
      [] pc = "finished" -> "Assembled"
      [] pc \in {"not_found", "raised"} -> "Failed"

\* C13 as stated: the phases follow Idle, MetadataFetched, Tiled, Downloading,
\* Assembled; Failed is entered only from MetadataFetched or from Downloading;
\* Assembled is not followed by Downloading; the next call starts from Idle.
C13_PhaseOrderAsStated ==
    [][Phase' # Phase =>
          <<Phase, Phase'>> \in {<<"Idle", "MetadataFetched">>,
                                <<"MetadataFetched", "Tiled">>,
                                <<"Tiled", "Downloading">>,
                                <<"Downloading", "Assembled">>,
                                <<"MetadataFetched", "Failed">>,
                                <<"Downloading", "Failed">>,
                                <<"Assembled", "Idle">>,
                                <<"Failed", "Idle">>}]_vars

\* C13 as amended: the same order, but the failure on a missing band is
\* entered from Idle, before any metadata is fetched, and only for a band the
\* image does not hold; the failure from Downloading needs a failed task.
C13_PhaseOrder ==
    [][Phase' # Phase =>
          \/ <<Phase, Phase'>> \in {<<"MetadataFetched", "Tiled">>,
                                   <<"Tiled", "Downloading">>,
                                   <<"Assembled", "Idle">>,
                                   <<"Failed", "Idle">>}
          \/ <<Phase, Phase'>> = <<"Idle", "MetadataFetched">> /\ arg_band \in ImageBands
          \/ <<Phase, Phase'>> = <<"Idle", "Failed">> /\ arg_band' \notin ImageBands
          \/ <<Phase, Phase'>> = <<"Downloading", "Failed">> /\ Failed # {}
          \/ <<Phase, Phase'>> = <<"Downloading", "Assembled">> /\ Failed = {}]_vars

\* C13 witness: a second call, on another image, that went through every phase
C13_Witness ==
    /\ calls = 2
    /\ pc = "finished"
    /\ Len(tiles) = 4
    /\ img[1] = "imgB"

\* C18: between and after download calls, an exposed array is the matrix of
\* the recorded band: its shape is the recorded dimensions and its samples are
\* those of the recorded band.
C18_ArrayMatchesRecordedBand ==
    (pc \in {"idle", "finished", "raised", "not_found"} /\ array # None)
    => /\ Len(array) = band_info[1]
       /\ Len(array[1]) = band_info[2]
       /\ array[1][1] = SourcePixel(band, 0, 0)

\* C19: the step of a download call that ends on a missing band changes none
\* of the recorded image, band name, band metadata, tile list and array.
C19_MissingBandChangesNothing ==
    [][(pc = "idle" /\ pc' = "not_found") => UNCHANGED <<img, band, band_info, tiles, array>>]_vars

\* C19 witness: a call on a missing band has ended on a downloader that holds
\* the results of an earlier call
C19_Witness ==
    /\ pc = "not_found"
    /\ calls = 2
    /\ array # None
    /\ band = "B8"
    /\ Len(tiles) = 4

----------------------------------------------------------------------------
(* Claims about open_url *)

\* C15: when open_url has read the whole body, the byte-level counter equals
\* the bar's total, the tile's estimated size, whatever the body's length.
C15_ByteCounterEqualsTotal == pc = "url_done" => bar_n = bar_total

====
